---- MODULE Spec2Model ----
(***************************************************************************)
(* A model of libmachine/provision/redhat.go: the RedHat provisioner.      *)
(*                                                                         *)
(* The provisioner drives a remote host through a command channel          *)
(* (SSHCommand).  Every remote command is one step of the model; its       *)
(* result is chosen by the environment: "ok", "fail" (the command returned *)
(* an error) or "noclient" (no ssh client could be obtained, so no command *)
(* was sent).  The model keeps the list of the commands sent (log), the    *)
(* remote /etc/hosts file, the provisioner's fields and the position of    *)
(* the running call (pc, with the labels to return to in stack).           *)
(*                                                                         *)
(* GenerateDockerOptions sends no command: it renders engineConfigTemplate *)
(* into a text, kept as a sequence of pieces, and leaves what it returned  *)
(* in gen.  A second provisioner with a host of its own is kept in other   *)
(* for the runs of two provisioners side by side.                          *)
(***************************************************************************)
EXTENDS Naturals, Sequences, FiniteSets

\* ------------------------------------------------------------------ bounds

\* Number of lines of the initial remote /etc/hosts file.
MaxHostsLines == 2
\* Number of probe calls the readiness poller makes before it gives up (the
\* poller's own limit is larger; the model cuts it down).
MaxAttempts == 2
\* Length of the lists of the engine options (labels, registries, mirrors,
\* flags, environment).
MaxListLen == 2
\* Number of GenerateDockerOptions calls on one provisioner.
MaxRenders == 2

\* --------------------------------------------------------------- constants

Nil == "nil"
ErrUnknownYumOsRelease == "unknown OS for Yum repository"
ErrSSHClient == "cannot get ssh client"
ErrCommand == "ssh command error"
ErrOsRelease == "cannot get os-release"
ErrWaitTimeout == "maximum number of retries exceeded"
ErrConfigureAuth == "configure auth error"
ErrConfigureSwarm == "configure swarm error"
ErrTemplateParse == "template: parse error"
ErrTemplateExecute == "template: execute error"

\* NewRedHatProvisioner
DockerOptionsDir == "/etc/docker"
DaemonOptionsFile == "/etc/systemd/system/docker.service"
Packages == <<"curl">>

\* What the command channel can answer to one SSHCommand call.
Outcomes == {"ok", "fail", "noclient"}

\* Host names are sequences of characters, as are the lines of /etc/hosts.
HostA == <<"a">>
HostB == <<"b">>
Hostnames == {HostA, HostB}
\* Driver.GetMachineName()
MachineName == HostA

\* The address the hosts script looks for, with "." as sed and grep read it:
\* any character.
LoopbackPattern == <<"1", "2", "7", ".", "0", ".", "1", ".", "1">>

\* Lines an initial /etc/hosts is made of: the localhost line, two loopback
\* host name lines, and a line of another address that the pattern matches too.
LineLocalhost == <<"1", "2", "7", ".", "0", ".", "0", ".", "1", " ", "l">>
LineLoopA == LoopbackPattern \o <<" ">> \o HostA
LineLoopB == LoopbackPattern \o <<" ">> \o HostB
LineOther == <<"1", "2", "7", ".", "0", ".", "1", ".", "1", "0", " ", "c">>
CandidateLines == {LineLocalhost, LineLoopA, LineLoopB, LineOther}

PackageActions == {"Install", "Remove", "Upgrade", "Unmapped"}
ServiceActions == {"Restart", "Start", "Stop", "Enable", "Disable", "Unmapped"}
ServiceNames == {"docker", "sshd"}
PackageNames == {"curl", "wget"}
OsIds == {"rhel", "centos", "fedora", "ubuntu", "RHEL", ""}
StorageDrivers == {"", "overlay"}
AuthOptionsOf(ca, cert, key) ==
  [CaCertRemotePath |-> ca, ServerCertRemotePath |-> cert, ServerKeyRemotePath |-> key]
AuthInputs ==
  {AuthOptionsOf("", "", ""),
   AuthOptionsOf("/custom/ca.pem", "/custom/server.pem", "/custom/server-key.pem")}
SwarmInputs == {[IsSwarm |-> FALSE]}

\* Driver.DriverName()
DriverName == "generic"
\* The values the lists of the engine options are made of.  An environment
\* value is a sequence of characters, one of them with a double quote in it.
LabelValues == <<"a", "b">>
RegistryValues == <<"r1", "r2">>
MirrorValues == <<"m1", "m2">>
FlagValues == <<"debug", "ipv6">>
EnvValues == <<(<<"X", "=", "1">>), (<<"Q", "=", "\"">>)>>
Ports == {2376, 2377}

\* The lists of the engine options: every choice of values, in every order,
\* up to MaxListLen; s chooses the labels, mirrors and flags, t the insecure
\* registries and the environment.
IndexSeqs(n) == UNION {[1..k -> 1..2] : k \in 0..n}
Pick(values, s) == [i \in DOMAIN s |-> values[s[i]]]
EngineListsOf(s, t) ==
  [Labels |-> Pick(LabelValues, s),
   InsecureRegistry |-> Pick(RegistryValues, t),
   RegistryMirror |-> Pick(MirrorValues, s),
   ArbitraryFlags |-> Pick(FlagValues, s),
   Env |-> Pick(EnvValues, t)]
EngineLists ==
  {EngineListsOf(s, t) : s \in IndexSeqs(MaxListLen), t \in IndexSeqs(MaxListLen)}
\* The lists Provision is called with.
ProvisionEngineLists == {EngineListsOf(<<>>, <<>>), EngineListsOf(<<1>>, <<1>>)}

\* ----------------------------------------------------------------- helpers

\* A remote command: what is run, two arguments and a host name.
Cmd(k, a, b, h) == [kind |-> k, a |-> a, b |-> b, host |-> h, sudo |-> FALSE]

\* Driver.SSHSudo: the command with the privilege-escalation prefix.
SSHSudo(c) == [c EXCEPT !.sudo = TRUE]

\* SSHCommand with the error of the command dropped.
SSHErr_ignored(o) == IF o = "noclient" THEN ErrSSHClient ELSE Nil
\* The error SSHCommand returns for an outcome of the channel.
SSHErr(o) ==
  CASE o = "ok" -> Nil
    [] o = "fail" -> ErrCommand
    [] o = "noclient" -> ErrSSHClient

\* dockerDaemonResponding answering true whatever the command returned.
DockerDaemonResponding_always(o) == TRUE
\* dockerDaemonResponding: the daemon is up if the command worked.
DockerDaemonResponding(o) == SSHErr(o) = Nil

\* Service with the reload before a restart only.
ReloadDaemon_restartOnly(action) == action = "Restart"
\* Service: systemd is reloaded before a start and before a restart.
ReloadDaemon(action) == action \in {"Start", "Restart"}

\* serviceaction.ServiceAction.String(): the systemctl verb of an action; an
\* action outside the enumeration has none.
ServiceVerb(action) ==
  CASE action = "Restart" -> "restart"
    [] action = "Start" -> "start"
    [] action = "Stop" -> "stop"
    [] action = "Enable" -> "enable"
    [] action = "Disable" -> "disable"
    [] OTHER -> ""

\* Package: the switch over the action; packageAction stays "" when no case
\* matches.
PackageVerb(action) ==
  CASE action = "Install" -> "install"
    [] action = "Remove" -> "remove"
    [] action = "Upgrade" -> "upgrade"
    [] OTHER -> ""

\* Provision without the default.
DefaultStorageDriver_none(sd) == sd
\* Provision: the default storage driver for redhat.
DefaultStorageDriver(sd) == IF sd = "" THEN "devicemapper" ELSE sd

\* The loop ending one package early.
PackagesDone_early(i) == i >= Len(Packages)
\* Provision: the loop over the base packages ends after the last one.
PackagesDone(i) == i > Len(Packages)

\* generateYumRepoList with the centos repository as the default case.
GenerateYumRepoList_default(r) ==
  IF r.err # Nil THEN [err |-> r.err, OsRelease |-> "", OsReleaseVersion |-> ""]
  ELSE IF r.Id = "fedora"
    THEN [err |-> Nil, OsRelease |-> "fedora", OsReleaseVersion |-> "22"]
    ELSE [err |-> Nil, OsRelease |-> "centos", OsReleaseVersion |-> "7"]
\* generateYumRepoList: the switch over releaseInfo.Id.  r is what
\* GetOsReleaseInfo returned: [err, Id].
GenerateYumRepoList(r) ==
  IF r.err # Nil THEN [err |-> r.err, OsRelease |-> "", OsReleaseVersion |-> ""]
  ELSE CASE r.Id \in {"rhel", "centos"} ->
              [err |-> Nil, OsRelease |-> "centos", OsReleaseVersion |-> "7"]
         [] r.Id = "fedora" ->
              [err |-> Nil, OsRelease |-> "fedora", OsReleaseVersion |-> "22"]
         [] OTHER ->
              [err |-> ErrUnknownYumOsRelease, OsRelease |-> "", OsReleaseVersion |-> ""]

\* What GetOsReleaseInfo can return.
ReleaseInfos ==
  {[err |-> ErrOsRelease, Id |-> ""]} \cup {[err |-> Nil, Id |-> id] : id \in OsIds}
NoReleaseInfo == [err |-> Nil, Id |-> "unread"]
NoRepoList == [err |-> Nil, OsRelease |-> "unset", OsReleaseVersion |-> "unset"]

\* setRemoteAuthOptions: the auth options with the remote paths under the
\* options directory.
SetRemoteAuthOptions(p) ==
  [p.AuthOptions EXCEPT !.CaCertRemotePath = "/etc/docker/ca.pem",
                        !.ServerCertRemotePath = "/etc/docker/server.pem",
                        !.ServerKeyRemotePath = "/etc/docker/server-key.pem"]

\* ------------------------------------------------------------ /etc/hosts

\* A hosts file: its lines, and whether the last line is incomplete (the file
\* does not end with a newline).
HostsFile(ls, inc) == [lines |-> ls, incomplete |-> inc]

\* "^127.0.1.1.*" of sed, and "127.0.1.1.*" of grep -x: the line starts with
\* the pattern, a "." of the pattern standing for any character.
MatchesLoopback(line) ==
  /\ Len(line) >= Len(LoopbackPattern)
  /\ \A i \in 1..Len(LoopbackPattern) :
       LoopbackPattern[i] = "." \/ line[i] = LoopbackPattern[i]

\* The line the script writes: "127.0.1.1 <hostname>".
LoopbackLine(h) == LoopbackPattern \o <<" ">> \o h

\* sed -i 's/^127.0.1.1.*/127.0.1.1 h/g': every matching line is replaced.
SedReplace(f, h) ==
  HostsFile([i \in 1..Len(f.lines) |->
               IF MatchesLoopback(f.lines[i]) THEN LoopbackLine(h) ELSE f.lines[i]],
            f.incomplete)

\* echo '127.0.1.1 h' | tee -a: the text is added at the end of the file, so
\* to the last line when that line is incomplete.
TeeAppend(f, h) ==
  IF f.lines = <<>> \/ ~f.incomplete
  THEN HostsFile(Append(f.lines, LoopbackLine(h)), FALSE)
  ELSE HostsFile([f.lines EXCEPT ![Len(f.lines)] = @ \o LoopbackLine(h)], FALSE)

\* The script without its condition: the line is always appended.
HostsScript_append(f, h) == TeeAppend(f, h)
\* The script of SetHostname: if grep finds the pattern then sed, else tee.
HostsScript(f, h) ==
  IF \E i \in 1..Len(f.lines) : MatchesLoopback(f.lines[i])
  THEN SedReplace(f, h)
  ELSE TeeAppend(f, h)

\* The initial hosts files.
LineSeqs(n) == UNION {[1..k -> CandidateLines] : k \in 0..n}
InitialHosts ==
  {HostsFile(ls, FALSE) : ls \in LineSeqs(MaxHostsLines)}
    \cup {HostsFile(ls, TRUE) : ls \in LineSeqs(MaxHostsLines) \ {<<>>}}

\* ------------------------------------------------------------------ state

VARIABLES
  hosts,        \* the remote /etc/hosts
  hosts0,       \* /etc/hosts before the first call
  prov,         \* the provisioner: SwarmOptions, AuthOptions, EngineOptions
  op,           \* the top-level call that runs or ran last
  opArgs,       \* the arguments the caller gave to Provision
  pc,           \* the position of the running call
  stack,        \* the positions to return to
  arg,          \* the arguments of the method at pc
  pkgIdx,       \* Provision: the index of the next base package
  attempts,     \* WaitFor: probe calls made
  releaseInfo,  \* generateYumRepoList: what GetOsReleaseInfo returned
  repoList,     \* generateYumRepoList: its result
  log,          \* the commands sent in the running call, each with its result
  retErr,       \* what the top-level call returned
  failStep,     \* the step of Provision that returned the error
  prevFail,     \* the command error and step an earlier Provision ended with
  hn,           \* the last SetHostname that returned: its host name and result
  gen,          \* GenerateDockerOptions: the calls made and what the last returned
  other         \* a second provisioner and its host, while the first one runs

vars ==
  <<hosts, hosts0, prov, op, opArgs, pc, stack, arg, pkgIdx, attempts,
    releaseInfo, repoList, log, retErr, failStep, prevFail, hn, gen, other>>

NoArg == [name |-> "", action |-> "", host |-> <<>>]
NoOpArgs == [swarm |-> [IsSwarm |-> FALSE], auth |-> AuthOptionsOf("", "", ""), sd |-> ""]

\* NewRedHatProvisioner: the options are unset.
NewRedHatProvisioner ==
  [SwarmOptions |-> [IsSwarm |-> FALSE],
   AuthOptions |-> AuthOptionsOf("", "", ""),
   StorageDriver |-> "",
   Labels |-> <<>>,
   InsecureRegistry |-> <<>>,
   RegistryMirror |-> <<>>,
   ArbitraryFlags |-> <<>>,
   Env |-> <<>>]

NoFail == [err |-> Nil, step |-> "none"]

NoDockerOptions == [has |-> FALSE, EngineOptions |-> <<>>, EngineOptionsPath |-> ""]
NoGenCall == [port |-> 0, result |-> NoDockerOptions, err |-> Nil, renderErr |-> Nil]
NoGen == [calls |-> 0, labels0 |-> <<>>, last |-> NoGenCall, prev |-> NoGenCall]
NoOther == [id |-> 0]

\* A provisioner and its host before a call, the host's /etc/hosts being one
\* of hs and the provisioner one of ps.
InitLocal(hs, ps) ==
  /\ \E inc \in BOOLEAN : hosts \in {f \in hs : f.incomplete = inc}
  /\ hosts0 = hosts
  /\ prov \in ps
  /\ gen = NoGen
  /\ op = "none"
  /\ opArgs = NoOpArgs
  /\ pc = "idle"
  /\ stack = <<>>
  /\ arg = NoArg
  /\ pkgIdx = 1
  /\ attempts = 0
  /\ releaseInfo = NoReleaseInfo
  /\ repoList = NoRepoList
  /\ log = <<>>
  /\ retErr = Nil
  /\ failStep = "none"
  /\ prevFail = NoFail
  /\ hn = [host |-> <<>>, ok |-> FALSE]

\* The state before a call, one provisioner being in use.
InitOf(hs, ps) == InitLocal(hs, ps) /\ other = NoOther

\* The state after construction, the host's /etc/hosts being one of hs.
InitWith(hs) == InitOf(hs, {NewRedHatProvisioner})

\* ------------------------------------------------------------ control flow

\* The step of the orchestration a position belongs to.
StepOf(l) ==
  CASE l \in {"SetHostname.1", "SetHostname.2"} -> "SetHostname"
    [] l \in {"Provision.packages", "Package.1"} -> "BasePackages"
    [] l = "Provision.update" -> "OsUpdate"
    [] l \in {"ConfigurePackageList.1", "ConfigurePackageList.2"} -> "RepoConfig"
    [] l \in {"installOfficialDocker.2", "installDocker.enable", "Service.1", "Service.2"} ->
         "EngineInstall"
    [] l = "Provision.wait" -> "Readiness"
    [] l = "Provision.optsdir" -> "OptionsDir"
    [] l = "Provision.auth" -> "Auth"
    [] l = "Provision.swarm" -> "Swarm"
    [] OTHER -> "none"

\* SSHCommand: the command is sent unless no client could be obtained.
Logged(o, c) == IF o = "noclient" THEN log ELSE Append(log, [cmd |-> c, ok |-> o = "ok"])

\* A top-level call may start when none is running.
Idle == pc \in {"idle", "done"}

Begin(name) ==
  /\ op' = name
  /\ log' = <<>>
  /\ retErr' = Nil
  /\ failStep' = "none"
  /\ pkgIdx' = 1
  /\ attempts' = 0
  /\ releaseInfo' = NoReleaseInfo
  /\ repoList' = NoRepoList
  /\ prevFail' = IF op = "Provision" /\ retErr = ErrCommand
                  THEN [err |-> retErr, step |-> failStep]
                  ELSE prevFail
  /\ UNCHANGED <<hosts, hosts0, hn, other>>

\* "if err != nil { return err }" at every call site: an error ends the
\* top-level call; a nil result continues the caller.
Return(e) ==
  IF e # Nil
  THEN /\ pc' = "done"
       /\ stack' = <<>>
       /\ retErr' = e
       /\ failStep' = StepOf(pc)
       /\ UNCHANGED prevFail
  ELSE IF stack = <<>>
  THEN /\ pc' = "done"
       /\ stack' = <<>>
       /\ UNCHANGED <<retErr, failStep, prevFail>>
  ELSE /\ pc' = Head(stack)
       /\ stack' = Tail(stack)
       /\ UNCHANGED <<retErr, failStep, prevFail>>

Goto(l) == pc' = l /\ UNCHANGED <<stack, retErr, failStep, prevFail>>

CallMethod(l, a, ret) ==
  /\ pc' = l
  /\ arg' = a
  /\ stack' = <<ret>> \o stack
  /\ UNCHANGED <<retErr, failStep, prevFail>>

\* ------------------------------------------------------------ SetHostname

HostnameCmd(h) == SSHSudo(Cmd("sh -c 'hostname %s && echo %q | tee /etc/hostname'", "", "", h))
HostsCmd(h) == Cmd("if grep -xq 127.0.1.1.* /etc/hosts; then sudo sed -i; else sudo tee -a; fi", "", "", h)

CallSetHostname(h) ==
  /\ Idle
  /\ Begin("SetHostname")
  /\ pc' = "SetHostname.1"
  /\ arg' = [NoArg EXCEPT !.host = h]
  /\ stack' = <<>>
  /\ UNCHANGED <<prov, opArgs, gen>>

\* The first command, its error dropped: the script follows in any case.
SetHostnameCmd1_continue ==
  /\ pc = "SetHostname.1"
  /\ \E o \in Outcomes :
       /\ log' = Logged(o, HostnameCmd(arg.host))
       /\ Goto("SetHostname.2")
  /\ UNCHANGED <<hosts, hosts0, gen, other, prov, op, opArgs, arg, pkgIdx, attempts,
                 releaseInfo, repoList, hn>>

\* The first command: the live hostname and /etc/hostname.
SetHostnameCmd1 ==
  /\ pc = "SetHostname.1"
  /\ \E o \in Outcomes :
       /\ log' = Logged(o, HostnameCmd(arg.host))
       /\ IF SSHErr(o) = Nil
          THEN Goto("SetHostname.2") /\ UNCHANGED hn
          ELSE Return(SSHErr(o)) /\ hn' = [host |-> arg.host, ok |-> FALSE]
  /\ UNCHANGED <<hosts, hosts0, gen, other, prov, op, opArgs, arg, pkgIdx, attempts,
                 releaseInfo, repoList>>

\* The second command: the script on /etc/hosts.  A command that returns an
\* error may or may not have run on the host.
SetHostnameCmd2 ==
  /\ pc = "SetHostname.2"
  /\ \E o \in Outcomes :
       /\ log' = Logged(o, HostsCmd(arg.host))
       /\ hosts' \in CASE o = "ok" -> {HostsScript(hosts, arg.host)}
                       [] o = "fail" -> {hosts, HostsScript(hosts, arg.host)}
                       [] o = "noclient" -> {hosts}
       /\ Return(SSHErr(o))
       /\ hn' = [host |-> arg.host, ok |-> SSHErr(o) = Nil]
  /\ UNCHANGED <<hosts0, gen, other, prov, op, opArgs, arg, pkgIdx, attempts,
                 releaseInfo, repoList>>

\* ---------------------------------------------------------------- Service

ReloadCmd == SSHSudo(Cmd("systemctl daemon-reload", "", "", <<>>))
SystemctlCmd(action, name) == SSHSudo(Cmd("systemctl %s %s", ServiceVerb(action), name, <<>>))

CallService(name, action) ==
  /\ Idle
  /\ Begin("Service")
  /\ pc' = "Service.1"
  /\ arg' = [NoArg EXCEPT !.name = name, !.action = action]
  /\ stack' = <<>>
  /\ UNCHANGED <<prov, opArgs, gen>>

\* The daemon-reload, sent when reloadDaemon is set.
ServiceReload ==
  /\ pc = "Service.1"
  /\ ReloadDaemon(arg.action)
  /\ \E o \in Outcomes :
       /\ log' = Logged(o, ReloadCmd)
       /\ IF SSHErr(o) = Nil THEN Goto("Service.2") ELSE Return(SSHErr(o))
  /\ UNCHANGED <<hosts, hosts0, gen, other, prov, op, opArgs, arg, pkgIdx, attempts,
                 releaseInfo, repoList, hn>>

\* The systemctl command of the action.
ServiceControl ==
  /\ pc = "Service.2" \/ (pc = "Service.1" /\ ~ReloadDaemon(arg.action))
  /\ \E o \in Outcomes :
       /\ log' = Logged(o, SystemctlCmd(arg.action, arg.name))
       /\ Return(SSHErr(o))
  /\ UNCHANGED <<hosts, hosts0, gen, other, prov, op, opArgs, arg, pkgIdx, attempts,
                 releaseInfo, repoList, hn>>

\* ---------------------------------------------------------------- Package

YumCmd(action, name) == SSHSudo(Cmd("yum %s -y %s", PackageVerb(action), name, <<>>))

CallPackage(name, action) ==
  /\ Idle
  /\ Begin("Package")
  /\ pc' = "Package.1"
  /\ arg' = [NoArg EXCEPT !.name = name, !.action = action]
  /\ stack' = <<>>
  /\ UNCHANGED <<prov, opArgs, gen>>

PackageCmd ==
  /\ pc = "Package.1"
  /\ \E o \in Outcomes :
       /\ log' = Logged(o, YumCmd(arg.action, arg.name))
       /\ Return(SSHErr(o))
  /\ UNCHANGED <<hosts, hosts0, gen, other, prov, op, opArgs, arg, pkgIdx, attempts,
                 releaseInfo, repoList, hn>>

\* -------------------------------------------------------------- Provision

YumUpdateCmd == SSHSudo(Cmd("yum -y update", "", "", <<>>))
RepoFileCmd(r) ==
  SSHSudo(Cmd("sh -c 'echo %q | sudo tee /etc/yum.repos.d/docker.repo'",
              r.OsRelease, r.OsReleaseVersion, <<>>))
EngineInstallCmd == SSHSudo(Cmd("yum install -y docker-engine", "", "", <<>>))
DockerVersionCmd == SSHSudo(Cmd("docker version", "", "", <<>>))
MkdirCmd == SSHSudo(Cmd("mkdir -p %s", DockerOptionsDir, "", <<>>))
ConfigureAuthCall(a) == Cmd("ConfigureAuth", a.CaCertRemotePath, "", <<>>)
ConfigureSwarmCall(a) == Cmd("configureSwarm", a.CaCertRemotePath, "", <<>>)

\* Provision up to its first call: the options are stored, the storage driver
\* gets its default, SetHostname is called with the machine's name.
CallProvision(swarmOptions, authOptions, storageDriver, engineLists) ==
  /\ Idle
  /\ Begin("Provision")
  /\ opArgs' = [swarm |-> swarmOptions, auth |-> authOptions, sd |-> storageDriver]
  /\ prov' = [SwarmOptions |-> swarmOptions,
              AuthOptions |-> authOptions,
              StorageDriver |-> DefaultStorageDriver(storageDriver),
              Labels |-> engineLists.Labels,
              InsecureRegistry |-> engineLists.InsecureRegistry,
              RegistryMirror |-> engineLists.RegistryMirror,
              ArbitraryFlags |-> engineLists.ArbitraryFlags,
              Env |-> engineLists.Env]
  /\ UNCHANGED gen
  /\ pc' = "SetHostname.1"
  /\ arg' = [NoArg EXCEPT !.host = MachineName]
  /\ stack' = <<"Provision.packages">>

\* The loop over provisioner.Packages.
ProvisionPackages ==
  /\ pc = "Provision.packages"
  /\ IF PackagesDone(pkgIdx)
     THEN Goto("Provision.update") /\ UNCHANGED <<arg, pkgIdx>>
     ELSE /\ CallMethod("Package.1",
                        [NoArg EXCEPT !.name = Packages[pkgIdx], !.action = "Install"],
                        "Provision.packages")
          /\ pkgIdx' = pkgIdx + 1
  /\ UNCHANGED <<hosts, hosts0, gen, other, prov, op, opArgs, attempts, releaseInfo,
                 repoList, log, hn>>

\* The OS update, sent again when it failed.
ProvisionUpdate_retry ==
  /\ pc = "Provision.update"
  /\ \E o \in Outcomes :
       /\ log' = Logged(o, YumUpdateCmd)
       /\ CASE o = "ok" -> Goto("ConfigurePackageList.1")
            [] o = "fail" -> Goto("Provision.update")
            [] o = "noclient" -> Return(SSHErr(o))
  /\ UNCHANGED <<hosts, hosts0, gen, other, prov, op, opArgs, arg, pkgIdx, attempts,
                 releaseInfo, repoList, hn>>

\* The OS update; installDocker follows, which starts in ConfigurePackageList.
ProvisionUpdate ==
  /\ pc = "Provision.update"
  /\ \E o \in Outcomes :
       /\ log' = Logged(o, YumUpdateCmd)
       /\ IF SSHErr(o) = Nil THEN Goto("ConfigurePackageList.1") ELSE Return(SSHErr(o))
  /\ UNCHANGED <<hosts, hosts0, gen, other, prov, op, opArgs, arg, pkgIdx, attempts,
                 releaseInfo, repoList, hn>>

\* ConfigurePackageList going on to its command whatever generateYumRepoList
\* returned.
ConfigurePackageListGenerate_ignoreErr ==
  /\ pc = "ConfigurePackageList.1"
  /\ \E r \in ReleaseInfos :
       /\ releaseInfo' = r
       /\ repoList' = GenerateYumRepoList(r)
       /\ Goto("ConfigurePackageList.2")
  /\ UNCHANGED <<hosts, hosts0, gen, other, prov, op, opArgs, arg, pkgIdx, attempts,
                 log, hn>>

\* ConfigurePackageList, its call of generateYumRepoList: no command is sent.
ConfigurePackageListGenerate ==
  /\ pc = "ConfigurePackageList.1"
  /\ \E r \in ReleaseInfos :
       /\ releaseInfo' = r
       /\ repoList' = GenerateYumRepoList(r)
       /\ IF GenerateYumRepoList(r).err = Nil
          THEN Goto("ConfigurePackageList.2")
          ELSE Return(GenerateYumRepoList(r).err)
  /\ UNCHANGED <<hosts, hosts0, gen, other, prov, op, opArgs, arg, pkgIdx, attempts,
                 log, hn>>

\* ConfigurePackageList, the command that writes the repository file.
ConfigurePackageListCmd ==
  /\ pc = "ConfigurePackageList.2"
  /\ \E o \in Outcomes :
       /\ log' = Logged(o, RepoFileCmd(repoList))
       /\ IF SSHErr(o) = Nil THEN Goto("installOfficialDocker.2") ELSE Return(SSHErr(o))
  /\ UNCHANGED <<hosts, hosts0, gen, other, prov, op, opArgs, arg, pkgIdx, attempts,
                 releaseInfo, repoList, hn>>

\* installOfficialDocker, the engine install command; installDocker then
\* restarts the service.
InstallOfficialDockerCmd ==
  /\ pc = "installOfficialDocker.2"
  /\ \E o \in Outcomes :
       /\ log' = Logged(o, EngineInstallCmd)
       /\ IF SSHErr(o) = Nil
          THEN CallMethod("Service.1",
                          [NoArg EXCEPT !.name = "docker", !.action = "Restart"],
                          "installDocker.enable")
          ELSE Return(SSHErr(o)) /\ UNCHANGED arg
  /\ UNCHANGED <<hosts, hosts0, gen, other, prov, op, opArgs, pkgIdx, attempts,
                 releaseInfo, repoList, hn>>

\* installDocker without the enabling of the service.
InstallDockerEnable_skip ==
  /\ pc = "installDocker.enable"
  /\ Goto("Provision.wait")
  /\ UNCHANGED <<hosts, hosts0, gen, other, prov, op, opArgs, arg, pkgIdx, attempts,
                 releaseInfo, repoList, log, hn>>

\* installDocker after the restart: the service is enabled; Provision then
\* waits for the daemon.
InstallDockerEnable ==
  /\ pc = "installDocker.enable"
  /\ CallMethod("Service.1",
                [NoArg EXCEPT !.name = "docker", !.action = "Enable"],
                "Provision.wait")
  /\ UNCHANGED <<hosts, hosts0, gen, other, prov, op, opArgs, pkgIdx, attempts,
                 releaseInfo, repoList, log, hn>>

\* WaitFor: the poller stops asking after MaxAttempts probe calls.
WaitForExhausted(n) == n >= MaxAttempts

\* One probe call, the error of the probe command returned to the caller.
ProvisionWaitProbe_propagate ==
  /\ pc = "Provision.wait"
  /\ ~WaitForExhausted(attempts)
  /\ \E o \in Outcomes :
       /\ log' = Logged(o, DockerVersionCmd)
       /\ attempts' = attempts + 1
       /\ IF DockerDaemonResponding(o)
          THEN Goto("Provision.optsdir")
          ELSE Return(SSHErr(o))
  /\ UNCHANGED <<hosts, hosts0, gen, other, prov, op, opArgs, arg, pkgIdx,
                 releaseInfo, repoList, hn>>

\* mcnutils.WaitFor(dockerDaemonResponding), one probe call: the probe sends
\* "docker version" and answers whether the command worked.
ProvisionWaitProbe ==
  /\ pc = "Provision.wait"
  /\ ~WaitForExhausted(attempts)
  /\ \E o \in Outcomes :
       /\ log' = Logged(o, DockerVersionCmd)
       /\ attempts' = attempts + 1
       /\ IF DockerDaemonResponding(o)
          THEN Goto("Provision.optsdir")
          ELSE Goto("Provision.wait")
  /\ UNCHANGED <<hosts, hosts0, gen, other, prov, op, opArgs, arg, pkgIdx,
                 releaseInfo, repoList, hn>>

\* WaitFor starting its count again instead of giving up.
WaitForTimeout_restart ==
  /\ pc = "Provision.wait"
  /\ WaitForExhausted(attempts)
  /\ attempts' = 0
  /\ Goto("Provision.wait")
  /\ UNCHANGED <<hosts, hosts0, gen, other, prov, op, opArgs, arg, pkgIdx,
                 releaseInfo, repoList, log, hn>>

\* mcnutils.WaitFor gives up.
WaitForTimeout ==
  /\ pc = "Provision.wait"
  /\ WaitForExhausted(attempts)
  /\ Return(ErrWaitTimeout)
  /\ UNCHANGED <<hosts, hosts0, gen, other, prov, op, opArgs, arg, pkgIdx, attempts,
                 releaseInfo, repoList, log, hn>>

\* makeDockerOptionsDir: one command.
MakeDockerOptionsDir ==
  /\ pc = "Provision.optsdir"
  /\ \E o \in Outcomes :
       /\ log' = Logged(o, MkdirCmd)
       /\ IF SSHErr(o) = Nil THEN Goto("Provision.auth") ELSE Return(SSHErr(o))
  /\ UNCHANGED <<hosts, hosts0, gen, other, prov, op, opArgs, arg, pkgIdx, attempts,
                 releaseInfo, repoList, hn>>

\* ConfigureAuth run with the auth options as the caller gave them.
ProvisionConfigureAuth_callerOptions ==
  /\ pc = "Provision.auth"
  /\ \E ok \in BOOLEAN :
       /\ log' = Append(log, [cmd |-> ConfigureAuthCall(prov.AuthOptions), ok |-> ok])
       /\ IF ok THEN Goto("Provision.swarm") ELSE Return(ErrConfigureAuth)
  /\ UNCHANGED <<hosts, hosts0, gen, other, prov, op, opArgs, arg, pkgIdx, attempts,
                 releaseInfo, repoList, hn>>

\* The auth options are derived again, then ConfigureAuth runs with them.
ProvisionConfigureAuth ==
  /\ pc = "Provision.auth"
  /\ prov' = [prov EXCEPT !.AuthOptions = SetRemoteAuthOptions(prov)]
  /\ \E ok \in BOOLEAN :
       /\ log' = Append(log, [cmd |-> ConfigureAuthCall(prov'.AuthOptions), ok |-> ok])
       /\ IF ok THEN Goto("Provision.swarm") ELSE Return(ErrConfigureAuth)
  /\ UNCHANGED <<hosts, hosts0, gen, other, op, opArgs, arg, pkgIdx, attempts,
                 releaseInfo, repoList, hn>>

\* configureSwarm with the caller's swarm options and the provisioner's auth
\* options; Provision returns what it returns.
ProvisionConfigureSwarm ==
  /\ pc = "Provision.swarm"
  /\ \E ok \in BOOLEAN :
       /\ log' = Append(log, [cmd |-> ConfigureSwarmCall(prov.AuthOptions), ok |-> ok])
       /\ Return(IF ok THEN Nil ELSE ErrConfigureSwarm)
  /\ UNCHANGED <<hosts, hosts0, gen, other, prov, op, opArgs, arg, pkgIdx, attempts,
                 releaseInfo, repoList, hn>>

\* ---------------------------------------------- GenerateDockerOptions

\* fmt.Sprintf("provider=%s", name)
ProviderLabel(name) ==
  CASE name = "generic" -> "provider=generic"
    [] name = "none" -> "provider=none"

\* {{.DockerPort}}: the port in decimal.
PortText(p) ==
  CASE p = 2376 -> "2376"
    [] p = 2377 -> "2377"

\* printf "%q": the value between double quotes, a double quote or a
\* backslash of the value after a backslash.
RECURSIVE Escape(_)
Escape(v) ==
  IF v = <<>> THEN <<>>
  ELSE (IF Head(v) \in {"\"", "\\"} THEN <<"\\", Head(v)>> ELSE <<Head(v)>>)
         \o Escape(Tail(v))
Quote(v) == <<"\"">> \o Escape(v) \o <<"\"">>

\* One element of a range with the line ended after it.
FlagItem_perLine(flag, v) == <<flag, v, "\n">>
\* One element of a range: "--flag {{.}} ".
FlagItem(flag, v) == <<flag, v, " ">>

\* {{ range list }}--flag {{.}} {{ end }}
RECURSIVE RangeOut(_, _)
RangeOut(flag, l) ==
  IF l = <<>> THEN <<>> ELSE FlagItem(flag, Head(l)) \o RangeOut(flag, Tail(l))

\* {{range .EngineOptions.Env}}{{ printf "%q" . }} {{end}}
RECURSIVE EnvOut(_)
EnvOut(l) ==
  IF l = <<>> THEN <<>> ELSE Quote(Head(l)) \o <<" ">> \o EnvOut(Tail(l))

\* The nodes of a parsed template: a text, a field of the context, a range
\* over a list of the context with a flag before each element, the range over
\* the environment.
TextNode(t) == [kind |-> "text", text |-> t, name |-> ""]
FieldNode(n) == [kind |-> "field", text |-> <<>>, name |-> n]
RangeNode(flag, n) == [kind |-> "range", text |-> <<flag>>, name |-> n]
QuoteRangeNode(n) == [kind |-> "range %q", text |-> <<>>, name |-> n]

\* engineConfigTemplate, parsed: its texts and actions in order.  A text is a
\* sequence of pieces; "\n" ends a line.
EngineConfigTemplate ==
  <<TextNode(<<"[Service]", "\n", "ExecStart=/usr/bin/docker -d -H tcp://0.0.0.0:">>),
    FieldNode("DockerPort"),
    TextNode(<<" -H unix:///var/run/docker.sock --storage-driver ">>),
    FieldNode("EngineOptions.StorageDriver"),
    TextNode(<<" --tlsverify --tlscacert ">>),
    FieldNode("AuthOptions.CaCertRemotePath"),
    TextNode(<<" --tlscert ">>),
    FieldNode("AuthOptions.ServerCertRemotePath"),
    TextNode(<<" --tlskey ">>),
    FieldNode("AuthOptions.ServerKeyRemotePath"),
    TextNode(<<" ">>),
    RangeNode("--label ", "EngineOptions.Labels"),
    RangeNode("--insecure-registry ", "EngineOptions.InsecureRegistry"),
    RangeNode("--registry-mirror ", "EngineOptions.RegistryMirror"),
    RangeNode("--", "EngineOptions.ArbitraryFlags"),
    TextNode(<<"\n", "MountFlags=slave", "\n", "LimitNOFILE=1048576", "\n",
               "LimitNPROC=1048576", "\n", "LimitCORE=infinity", "\n", "Environment=">>),
    QuoteRangeNode("EngineOptions.Env"),
    TextNode(<<"\n">>)>>

\* The field of the context a node names.
FieldOf(ctx, n) ==
  CASE n = "DockerPort" -> PortText(ctx.DockerPort)
    [] n = "EngineOptions.StorageDriver" -> ctx.EngineOptions.StorageDriver
    [] n = "AuthOptions.CaCertRemotePath" -> ctx.AuthOptions.CaCertRemotePath
    [] n = "AuthOptions.ServerCertRemotePath" -> ctx.AuthOptions.ServerCertRemotePath
    [] n = "AuthOptions.ServerKeyRemotePath" -> ctx.AuthOptions.ServerKeyRemotePath
    [] n = "EngineOptions.Labels" -> ctx.EngineOptions.Labels
    [] n = "EngineOptions.InsecureRegistry" -> ctx.EngineOptions.InsecureRegistry
    [] n = "EngineOptions.RegistryMirror" -> ctx.EngineOptions.RegistryMirror
    [] n = "EngineOptions.ArbitraryFlags" -> ctx.EngineOptions.ArbitraryFlags
    [] n = "EngineOptions.Env" -> ctx.EngineOptions.Env

\* What a node writes.
NodeOut(node, ctx) ==
  CASE node.kind = "text" -> node.text
    [] node.kind = "field" -> <<FieldOf(ctx, node.name)>>
    [] node.kind = "range" -> RangeOut(node.text[1], FieldOf(ctx, node.name))
    [] node.kind = "range %q" -> EnvOut(FieldOf(ctx, node.name))

\* template.Execute: the nodes are written in order; an action that fails
\* stops the execution, what was written before it stays in the buffer.
\* failAt is the action that fails, 0 when none does.
RECURSIVE ExecuteFrom(_, _, _, _)
ExecuteFrom(t, ctx, k, failAt) ==
  IF k > Len(t) \/ k = failAt THEN <<>>
  ELSE NodeOut(t[k], ctx) \o ExecuteFrom(t, ctx, k + 1, failAt)
Execute(t, ctx, failAt) ==
  [out |-> ExecuteFrom(t, ctx, 1, failAt),
   err |-> IF failAt = 0 THEN Nil ELSE ErrTemplateExecute]
ExecuteFailures(t) == {0} \cup {k \in 1..Len(t) : t[k].kind # "text"}

\* What a GenerateDockerOptions call leaves in gen: its port, what it
\* returned, and the error of the rendering, returned or not; the call before
\* it is kept when it rendered its text to the end.
GenReturn(port, result, err, renderErr) ==
  [calls |-> gen.calls + 1,
   labels0 |-> IF gen.calls = 0 THEN prov.Labels ELSE gen.labels0,
   last |-> [port |-> port, result |-> result, err |-> err, renderErr |-> renderErr],
   prev |-> IF gen.last.result.has /\ gen.last.renderErr = Nil THEN gen.last ELSE NoGenCall]

\* GenerateDockerOptions: the provider label is appended to the provisioner's
\* labels, the template is parsed (an error is returned) and executed (its
\* error is not looked at), the buffer is returned with the path of the file.
GenerateDockerOptions(dockerPort) ==
  /\ Idle
  /\ gen.calls < MaxRenders
  /\ prov' = [prov EXCEPT !.Labels = Append(@, ProviderLabel(DriverName))]
  /\ LET engineConfigContext ==
           [DockerPort |-> dockerPort,
            AuthOptions |-> prov'.AuthOptions,
            EngineOptions |-> prov',
            DockerOptionsDir |-> DockerOptionsDir]
         t == EngineConfigTemplate
     IN \E parseErr \in {Nil, ErrTemplateParse} :
          IF parseErr # Nil
          THEN gen' = GenReturn(dockerPort, NoDockerOptions, parseErr, parseErr)
          ELSE \E failAt \in ExecuteFailures(t) :
                 LET engineCfg == Execute(t, engineConfigContext, failAt)
                 IN gen' = GenReturn(dockerPort,
                                     [has |-> TRUE,
                                      EngineOptions |-> engineCfg.out,
                                      EngineOptionsPath |-> DaemonOptionsFile],
                                     Nil,
                                     engineCfg.err)
  /\ op' = "GenerateDockerOptions"
  /\ UNCHANGED <<hosts, hosts0, opArgs, pc, stack, arg, pkgIdx, attempts,
                 releaseInfo, repoList, log, retErr, failStep, prevFail, hn, other>>

\* ------------------------------------------------------------ specification

\* /etc/hosts of a freshly created host.
FreshHosts == {HostsFile(<<LineLocalhost>>, FALSE)}

\* Provision, run any number of times on one freshly created host.
Init == InitWith(FreshHosts)

Next ==
  \/ \E sw \in SwarmInputs, au \in AuthInputs, sd \in StorageDrivers,
        el \in ProvisionEngineLists : CallProvision(sw, au, sd, el)
  \/ SetHostnameCmd1
  \/ SetHostnameCmd2
  \/ ProvisionPackages
  \/ PackageCmd
  \/ ProvisionUpdate
  \/ ConfigurePackageListGenerate
  \/ ConfigurePackageListCmd
  \/ InstallOfficialDockerCmd
  \/ ServiceReload
  \/ ServiceControl
  \/ InstallDockerEnable
  \/ ProvisionWaitProbe
  \/ WaitForTimeout
  \/ MakeDockerOptionsDir
  \/ ProvisionConfigureAuth
  \/ ProvisionConfigureSwarm

Spec == Init /\ [][Next]_vars

\* The steps of a running call: everything but the start of a call.
Step ==
  \/ SetHostnameCmd1
  \/ SetHostnameCmd2
  \/ ProvisionPackages
  \/ PackageCmd
  \/ ProvisionUpdate
  \/ ConfigurePackageListGenerate
  \/ ConfigurePackageListCmd
  \/ InstallOfficialDockerCmd
  \/ ServiceReload
  \/ ServiceControl
  \/ InstallDockerEnable
  \/ ProvisionWaitProbe
  \/ WaitForTimeout
  \/ MakeDockerOptionsDir
  \/ ProvisionConfigureAuth
  \/ ProvisionConfigureSwarm

\* Provision runs in which every remote command (and every call of the
\* helpers outside this file) returns, and the goroutine of the call keeps
\* running: a step that can be taken is taken.
SpecLive == Init /\ [][Next]_vars /\ WF_vars(Step)

\* SetHostname, Service and Package, called any number of times on a host
\* with any /etc/hosts.
InitMethods == InitWith(InitialHosts)

NextMethods ==
  \/ \E h \in Hostnames : CallSetHostname(h)
  \/ SetHostnameCmd1
  \/ SetHostnameCmd2
  \/ \E n \in PackageNames, a \in PackageActions : CallPackage(n, a)
  \/ PackageCmd
  \/ \E n \in ServiceNames, a \in ServiceActions : CallService(n, a)
  \/ ServiceReload
  \/ ServiceControl

SpecMethods == InitMethods /\ [][NextMethods]_vars

\* GenerateDockerOptions, called on a provisioner as Provision leaves it
\* before ConfigureAuth: the caller's engine options stored, the storage
\* driver defaulted, the auth options derived.
RenderProvisioners ==
  {[NewRedHatProvisioner EXCEPT
      !.AuthOptions = SetRemoteAuthOptions(NewRedHatProvisioner),
      !.StorageDriver = DefaultStorageDriver(sd),
      !.Labels = el.Labels,
      !.InsecureRegistry = el.InsecureRegistry,
      !.RegistryMirror = el.RegistryMirror,
      !.ArbitraryFlags = el.ArbitraryFlags,
      !.Env = el.Env] : el \in EngineLists, sd \in StorageDrivers}

InitRender == InitOf(FreshHosts, RenderProvisioners)

NextRender == \E p \in Ports : GenerateDockerOptions(p)

SpecRender == InitRender /\ [][NextRender]_vars

\* ------------------------------------------------------- two provisioners

\* All that belongs to one provisioner: its fields, its host, its command
\* channel (log) and the position and locals of its running call.
Saved ==
  [hosts |-> hosts, hosts0 |-> hosts0, prov |-> prov, op |-> op, opArgs |-> opArgs,
   pc |-> pc, stack |-> stack, arg |-> arg, pkgIdx |-> pkgIdx, attempts |-> attempts,
   releaseInfo |-> releaseInfo, repoList |-> repoList, log |-> log, retErr |-> retErr,
   failStep |-> failStep, prevFail |-> prevFail, hn |-> hn, gen |-> gen]

\* The provisioner that runs, the other one being parked.
Self == 3 - other.id

\* One object for every NewRedHatProvisioner call.
ProvisionerOf_shared(st) == prov
\* NewRedHatProvisioner returns a new object: the provisioner of a call is
\* its own.
ProvisionerOf(st) == st.prov

\* The scheduler lets the other call run: the running one is parked as it is.
Switch ==
  /\ other.id # 0
  /\ other' = [id |-> Self, st |-> Saved]
  /\ prov' = ProvisionerOf(other.st)
  /\ hosts' = other.st.hosts
  /\ hosts0' = other.st.hosts0
  /\ op' = other.st.op
  /\ opArgs' = other.st.opArgs
  /\ pc' = other.st.pc
  /\ stack' = other.st.stack
  /\ arg' = other.st.arg
  /\ pkgIdx' = other.st.pkgIdx
  /\ attempts' = other.st.attempts
  /\ releaseInfo' = other.st.releaseInfo
  /\ repoList' = other.st.repoList
  /\ log' = other.st.log
  /\ retErr' = other.st.retErr
  /\ failStep' = other.st.failStep
  /\ prevFail' = other.st.prevFail
  /\ hn' = other.st.hn
  /\ gen' = other.st.gen

\* What each of the two callers gives to Provision.
InstanceArgs(id) ==
  IF id = 1
  THEN [swarm |-> [IsSwarm |-> FALSE], auth |-> AuthOptionsOf("", "", ""), sd |-> "",
        el |-> EngineListsOf(<<>>, <<>>)]
  ELSE [swarm |-> [IsSwarm |-> FALSE],
        auth |-> AuthOptionsOf("/custom/ca.pem", "/custom/server.pem", "/custom/server-key.pem"),
        sd |-> "overlay",
        el |-> EngineListsOf(<<1>>, <<1>>)]

\* The one Provision call of the provisioner that runs.
CallProvisionOnce ==
  /\ pc = "idle"
  /\ CallProvision(InstanceArgs(Self).swarm, InstanceArgs(Self).auth,
                   InstanceArgs(Self).sd, InstanceArgs(Self).el)

\* Two provisioners, each on a fresh host of its own, each running Provision
\* once, the steps of the two runs interleaved in any way.
InitTwo ==
  /\ InitLocal(FreshHosts, {NewRedHatProvisioner})
  /\ other = [id |-> 2, st |-> Saved]

NextTwo ==
  \/ Switch
  \/ CallProvisionOnce
  \/ Step

SpecTwo == InitTwo /\ [][NextTwo]_vars

\* ----------------------------------------------------------------- claims

Cmds(l) == [i \in 1..Len(l) |-> l[i].cmd]
AllOk(l) == \A i \in 1..Len(l) : l[i].ok
IsPrefix(a, b) == Len(a) <= Len(b) /\ \A i \in 1..Len(a) : a[i] = b[i]
IsProbe(e) == e.cmd = DockerVersionCmd

\* The commands of a Provision run, step by step, for the repository
\* coordinate r.
SetHostnameStep == <<HostnameCmd(MachineName), HostsCmd(MachineName)>>
BasePackagesStep == [i \in 1..Len(Packages) |-> YumCmd("Install", Packages[i])]
OsUpdateStep == <<YumUpdateCmd>>
RepoConfigStep(r) == <<RepoFileCmd(r)>>
EngineInstallStep ==
  <<EngineInstallCmd, ReloadCmd, SystemctlCmd("Restart", "docker"),
    SystemctlCmd("Enable", "docker")>>
ReadinessStep == <<DockerVersionCmd>>
OptionsDirStep == <<MkdirCmd>>
AuthStep == <<ConfigureAuthCall([CaCertRemotePath |-> "/etc/docker/ca.pem"])>>
SwarmStep == <<ConfigureSwarmCall([CaCertRemotePath |-> "/etc/docker/ca.pem"])>>
ExpectedProvisionCmds(r) ==
  SetHostnameStep \o BasePackagesStep \o OsUpdateStep \o RepoConfigStep(r)
    \o EngineInstallStep \o ReadinessStep \o OptionsDirStep \o AuthStep \o SwarmStep

\* C1: in a Provision run in which every command succeeds, the commands sent
\* so far are the beginning of the fixed sequence set hostname, base packages
\* in list order, OS update, repository file, engine install (with the restart
\* and enabling of the service), one readiness probe, options directory, auth,
\* swarm; and when the run returns without error they are the whole sequence:
\* no step is skipped, repeated or reordered.
C1_StepOrder ==
  (op = "Provision" /\ AllOk(log)) =>
    /\ IsPrefix(Cmds(log), ExpectedProvisionCmds(repoList))
    /\ (pc = "done" /\ retErr = Nil) => Cmds(log) = ExpectedProvisionCmds(repoList)

\* A Provision run that returned without error, every command having succeeded.
C1_Witness ==
  /\ op = "Provision" /\ pc = "done" /\ retErr = Nil /\ AllOk(log)
  /\ Len(log) = Len(Packages) + 12

\* C2, as stated: in a Provision run a command that returned a failure is the
\* last command sent, and the run then returns an error.
C2_AnyFailureEndsRun ==
  op = "Provision" =>
    \A i \in 1..Len(log) :
      ~log[i].ok => (i = Len(log) /\ (pc = "done" => retErr # Nil))

\* C2, amended: a failure of a command other than the readiness probe is the
\* last command sent and the run has returned an error; a failed readiness
\* probe is followed by nothing but a further probe.
C2_FailureEndsRunExceptProbe ==
  op = "Provision" =>
    \A i \in 1..Len(log) :
      ~log[i].ok =>
        IF IsProbe(log[i])
        THEN i < Len(log) => IsProbe(log[i + 1])
        ELSE i = Len(log) /\ pc = "done" /\ retErr # Nil

\* A Provision run ended by the failure of the OS update.
C2_Witness ==
  /\ op = "Provision" /\ pc = "done" /\ retErr = ErrCommand
  /\ Len(log) = Len(Packages) + 3
  /\ log[Len(log)] = [cmd |-> YumUpdateCmd, ok |-> FALSE]

\* C3: from the start of a Provision run to its end the provisioner's storage
\* driver is "devicemapper" when the caller gave none, and the caller's value
\* otherwise.
C3_StorageDriver ==
  op = "Provision" =>
    prov.StorageDriver = (IF opArgs.sd = "" THEN "devicemapper" ELSE opArgs.sd)

\* The engine install command was sent in a run called without storage driver.
C3_Witness ==
  /\ op = "Provision" /\ opArgs.sd = ""
  /\ \E i \in 1..Len(log) : log[i].cmd = EngineInstallCmd
  /\ prov.StorageDriver = "devicemapper"

\* C4: Service with Start or Restart sends the daemon-reload and, when it
\* succeeded, the control command right after it; Service with Stop, Enable or
\* Disable sends the control command alone.
C4_ReloadBeforeStart ==
  (op = "Service" /\ arg.action # "Unmapped") =>
    LET ctl == SystemctlCmd(arg.action, arg.name)
        expected == IF arg.action \in {"Start", "Restart"}
                    THEN <<ReloadCmd, ctl>>
                    ELSE <<ctl>>
    IN /\ IsPrefix(Cmds(log), expected)
       /\ \A i \in 1..Len(log) : i < Len(log) => log[i].ok
       /\ (pc = "done" /\ retErr = Nil) => Cmds(log) = expected

\* Service("docker", Start) returned without error after two commands.
C4_Witness ==
  /\ op = "Service" /\ arg.action = "Start" /\ pc = "done" /\ retErr = Nil
  /\ Len(log) = 2

\* C5: once generateYumRepoList has read the OS id, its result is (centos, 7)
\* for rhel and centos, (fedora, 22) for fedora and the unknown-OS error for
\* every other id, which Provision returns; a repository file is only ever
\* written for one of these two coordinates.
C5_RepoCoordinate ==
  /\ (releaseInfo.err = Nil /\ releaseInfo.Id # "unread") =>
       /\ releaseInfo.Id \in {"rhel", "centos"} =>
            repoList = [err |-> Nil, OsRelease |-> "centos", OsReleaseVersion |-> "7"]
       /\ releaseInfo.Id = "fedora" =>
            repoList = [err |-> Nil, OsRelease |-> "fedora", OsReleaseVersion |-> "22"]
       /\ releaseInfo.Id \notin {"rhel", "centos", "fedora"} =>
            /\ repoList.err = ErrUnknownYumOsRelease
            /\ retErr = ErrUnknownYumOsRelease
            /\ pc = "done"
            /\ \A i \in 1..Len(log) : log[i].cmd.kind # RepoFileCmd(repoList).kind
  /\ \A i \in 1..Len(log) :
       log[i].cmd.kind = RepoFileCmd(repoList).kind =>
         <<log[i].cmd.a, log[i].cmd.b>> \in {<<"centos", "7">>, <<"fedora", "22">>}

\* The OS id of the host is none of the three.
C5_Witness ==
  /\ op = "Provision" /\ releaseInfo = [err |-> Nil, Id |-> "ubuntu"]
  /\ retErr = ErrUnknownYumOsRelease

\* The lines of a hosts file that give a name to the address 127.0.1.1.
IsLoopbackLine(l) ==
  /\ Len(l) >= Len(LoopbackPattern)
  /\ SubSeq(l, 1, Len(LoopbackPattern)) = LoopbackPattern
  /\ (Len(l) = Len(LoopbackPattern) \/ l[Len(LoopbackPattern) + 1] = " ")
LoopbackLines(f) == {i \in 1..Len(f.lines) : IsLoopbackLine(f.lines[i])}
MatchingLines(f) == {i \in 1..Len(f.lines) : MatchesLoopback(f.lines[i])}
OneLoopbackLineFor(f, h) ==
  /\ Cardinality(LoopbackLines(f)) = 1
  /\ \A i \in LoopbackLines(f) : f.lines[i] = LoopbackLine(h)

\* C6, as stated: whatever the hosts file was at first, when the last
\* SetHostname returned without error the file has exactly one 127.0.1.1 line,
\* and it names the host name of that call.
C6_ExactlyOneLine == hn.ok => OneLoopbackLineFor(hosts, hn.host)

\* C6, amended: the same, when at first the hosts file had one line that the
\* pattern ^127.0.1.1.* matches, or had none and ended with a newline.
C6_ExactlyOneLineFromAtMostOne ==
  (/\ hn.ok
   /\ \/ Cardinality(MatchingLines(hosts0)) = 1
      \/ (MatchingLines(hosts0) = {} /\ ~hosts0.incomplete))
    => OneLoopbackLineFor(hosts, hn.host)

\* SetHostname returned without error on a host whose file named another host.
C6_Witness ==
  /\ hn.ok /\ hn.host = HostB /\ pc = "done"
  /\ hosts0 = HostsFile(<<LineLocalhost, LineLoopA>>, FALSE)
  /\ hosts = HostsFile(<<LineLocalhost, LineLoopB>>, FALSE)

\* C7: every yum and systemctl command sent has a verb, and a call with an
\* action that has no verb sends no command and returns an error.
C7_VerbNeverEmpty ==
  /\ \A i \in 1..Len(log) :
       log[i].cmd.kind \in {YumCmd("Install", "").kind, SystemctlCmd("Start", "").kind}
         => log[i].cmd.a # ""
  /\ (op \in {"Package", "Service"} /\ arg.action = "Unmapped") =>
       /\ log = <<>>
       /\ pc = "done" => retErr # Nil

\* The polling of a Provision run has ended with a probe that returned true.
WaitSucceeded ==
  /\ op = "Provision"
  /\ \/ pc \in {"Provision.optsdir", "Provision.auth", "Provision.swarm"}
     \/ (pc = "done" /\ (retErr = Nil \/ failStep \in {"OptionsDir", "Auth", "Swarm"}))

\* C8: no probe is sent after a probe that succeeded; when the polling has
\* ended with success its last probe succeeded and every earlier one failed;
\* when it ended with the timeout error, MaxAttempts probe calls, at least
\* one, were made and none succeeded.
C8_Poller ==
  op = "Provision" =>
    /\ attempts <= MaxAttempts
    /\ \A i, j \in 1..Len(log) : (i < j /\ IsProbe(log[i]) /\ log[i].ok) => ~IsProbe(log[j])
    /\ WaitSucceeded =>
         /\ attempts >= 1
         /\ \E i \in 1..Len(log) :
              /\ IsProbe(log[i]) /\ log[i].ok
              /\ \A j \in 1..(i - 1) : IsProbe(log[j]) => ~log[j].ok
    /\ retErr = ErrWaitTimeout =>
         /\ attempts = MaxAttempts /\ attempts >= 1
         /\ \A i \in 1..Len(log) : IsProbe(log[i]) => ~log[i].ok
         /\ pc = "done"

\* The second probe of a run succeeded after the first had failed.
C8_Witness ==
  /\ op = "Provision" /\ pc = "Provision.optsdir" /\ attempts = 2
  /\ Len(log) >= 2
  /\ log[Len(log)] = [cmd |-> DockerVersionCmd, ok |-> TRUE]
  /\ log[Len(log) - 1] = [cmd |-> DockerVersionCmd, ok |-> FALSE]

IsLaterStep(e) ==
  e.cmd.kind \in {MkdirCmd.kind, ConfigureAuthCall(prov.AuthOptions).kind,
                  ConfigureSwarmCall(prov.AuthOptions).kind}

\* C9: a Provision run never returns the error of a probe command; a run that
\* ends in the polling ends with the timeout error, which is neither error of
\* the command channel, and no command of a later step was sent; a probe that
\* failed is followed by a probe, a probe that succeeded by the command of the
\* options directory.
C9_ProbeFailureIsNotReady ==
  op = "Provision" =>
    /\ (pc = "done" /\ retErr \in {ErrCommand, ErrSSHClient}) => failStep # "Readiness"
    /\ (pc = "done" /\ failStep = "Readiness") =>
         /\ retErr = ErrWaitTimeout
         /\ retErr \notin {ErrCommand, ErrSSHClient}
         /\ \A i \in 1..Len(log) : ~IsLaterStep(log[i])
    /\ (pc = "done" /\ retErr = ErrWaitTimeout) => failStep = "Readiness"
    /\ \A i \in 1..Len(log) :
         IsProbe(log[i]) =>
           IF log[i].ok
           THEN IF i < Len(log)
                THEN log[i + 1].cmd = MkdirCmd
                ELSE pc = "Provision.optsdir" \/ (pc = "done" /\ failStep = "OptionsDir")
           ELSE IF i < Len(log)
                THEN IsProbe(log[i + 1])
                ELSE pc = "Provision.wait" \/ (pc = "done" /\ failStep = "Readiness")

\* A run ended by the timeout after probes that failed.
C9_Witness ==
  /\ op = "Provision" /\ pc = "done" /\ retErr = ErrWaitTimeout
  /\ Len(log) >= 1 /\ log[Len(log)] = [cmd |-> DockerVersionCmd, ok |-> FALSE]

\* C10: the error a Provision run returns for a failed command tells the step:
\* two runs that return the same error have failed in the same step.
C10_ErrorIdentifiesStep ==
  (op = "Provision" /\ pc = "done" /\ retErr = ErrCommand /\ prevFail.err = retErr)
    => prevFail.step = failStep

\* The auth options setRemoteAuthOptions derives in a run whose caller gave a.
DerivedAuthOptions(a) == SetRemoteAuthOptions([prov EXCEPT !.AuthOptions = a])
IsAuthCall(e) == e.cmd.kind = "ConfigureAuth"
IsSwarmCall(e) == e.cmd.kind = "configureSwarm"

\* C12: in a Provision run, ConfigureAuth runs right after the options
\* directory command succeeded and with the auth options derived at that
\* moment (until then the provisioner holds the caller's value); configureSwarm
\* is called at most once, right after ConfigureAuth succeeded, and gets the
\* same derived auth options.
C12_AuthOptionsRederived ==
  op = "Provision" =>
    /\ \A i \in 1..Len(log) :
         /\ IsAuthCall(log[i]) =>
              /\ log[i].cmd = ConfigureAuthCall(DerivedAuthOptions(opArgs.auth))
              /\ i > 1 /\ log[i - 1].cmd = MkdirCmd /\ log[i - 1].ok
         /\ IsSwarmCall(log[i]) =>
              /\ log[i].cmd = ConfigureSwarmCall(DerivedAuthOptions(opArgs.auth))
              /\ i > 1 /\ IsAuthCall(log[i - 1]) /\ log[i - 1].ok
              /\ \A j \in 1..Len(log) : IsSwarmCall(log[j]) => j = i
    /\ (pc \in {"Provision.wait", "Provision.optsdir", "Provision.auth"}) =>
         prov.AuthOptions = opArgs.auth
    /\ pc = "Provision.swarm" => prov.AuthOptions = DerivedAuthOptions(opArgs.auth)

\* A run that reached configureSwarm, the caller having given auth options of
\* its own.
C12_Witness ==
  /\ op = "Provision" /\ pc = "done"
  /\ opArgs.auth.CaCertRemotePath = "/custom/ca.pem"
  /\ \E i \in 1..Len(log) : IsSwarmCall(log[i])

\* C13: in a Provision run, a command that returned a failure is not sent
\* again, unless it is the readiness probe.
C13_NoRetryAfterFailure ==
  op = "Provision" =>
    \A i \in 1..Len(log) : \A j \in 1..Len(log) :
      (i < j /\ ~log[i].ok /\ log[j].cmd = log[i].cmd) => IsProbe(log[i])

\* A probe sent again after a probe that failed.
C13_Witness ==
  /\ op = "Provision"
  /\ \E i \in 1..Len(log) : \E j \in 1..Len(log) :
       i < j /\ ~log[i].ok /\ IsProbe(log[i]) /\ IsProbe(log[j])

\* C15: a Provision run that has started comes to its end, with or without
\* an error, every remote command returning.
C15_ProvisionTerminates ==
  (op = "Provision" /\ ~Idle) ~> (op = "Provision" /\ pc = "done")

\* A run ended by the poller giving up, every probe allowed having failed.
C15_Witness ==
  /\ op = "Provision" /\ pc = "done" /\ retErr = ErrWaitTimeout
  /\ attempts = MaxAttempts

\* The OS release information is not usable for a repository: it could not be
\* read, or its id is none of the known ones.
UnknownOsRelease(r) == r.err # Nil \/ r.Id \notin {"rhel", "centos", "fedora"}

\* C17: in a Provision run in which the OS release information could not be
\* read or names an unknown OS, the run has returned that error, from the
\* repository step, and the commands sent are those of the steps before it:
\* no repository file, no engine install, no service command, no probe.
C17_UnknownOsNoCommand ==
  (op = "Provision" /\ releaseInfo # NoReleaseInfo /\ UnknownOsRelease(releaseInfo)) =>
    /\ pc = "done"
    /\ retErr = IF releaseInfo.err # Nil THEN releaseInfo.err ELSE ErrUnknownYumOsRelease
    /\ failStep = "RepoConfig"
    /\ Cmds(log) = SetHostnameStep \o BasePackagesStep \o OsUpdateStep

\* A run that ended on the OS id "ubuntu".
C17_Witness ==
  /\ op = "Provision" /\ pc = "done"
  /\ releaseInfo = [err |-> Nil, Id |-> "ubuntu"]
  /\ retErr = ErrUnknownYumOsRelease

\* The commands that follow the engine install.
ServiceSteps == <<ReloadCmd, SystemctlCmd("Restart", "docker"), SystemctlCmd("Enable", "docker")>>
IsServiceOrProbe(e) == IsProbe(e) \/ \E k \in 1..Len(ServiceSteps) : e.cmd = ServiceSteps[k]

\* C18: in a Provision run, the commands after the successful engine install
\* are daemon-reload, restart, enable and then the probes, each sent only
\* after the one before it succeeded (so a failed reload or restart is
\* followed by no enable and no probe); no reload stands between restart and
\* enable; none of these commands is sent before the engine install succeeded.
C18_RestartThenEnableThenProbe ==
  op = "Provision" =>
    \A k \in 1..Len(log) :
      IsServiceOrProbe(log[k]) =>
        \E i \in 1..(k - 1) :
          /\ log[i].cmd = EngineInstallCmd /\ log[i].ok
          /\ \A m \in (i + 1)..k :
               /\ (m - i <= 3) => log[m].cmd = ServiceSteps[m - i]
               /\ (m - i > 3) => IsProbe(log[m])
               /\ (m - i <= 4 /\ m > i + 1) => log[m - 1].ok

\* A run in which the probe was sent.
C18_Witness ==
  /\ op = "Provision"
  /\ \E k \in 1..Len(log) : IsProbe(log[k])

\* C20: a SetHostname call sends the hostname command and then the hosts
\* script, and nothing else; the script is sent only after the hostname
\* command succeeded; the call returns no error exactly when both were sent
\* and succeeded, and the command error exactly when the last command sent
\* failed.
C20_SetHostnameTwoCommands ==
  op = "SetHostname" =>
    /\ IsPrefix(Cmds(log), <<HostnameCmd(arg.host), HostsCmd(arg.host)>>)
    /\ Len(log) = 2 => log[1].ok
    /\ pc = "SetHostname.2" => (Len(log) = 1 /\ log[1].ok)
    /\ pc = "done" =>
         /\ retErr = Nil <=> (Len(log) = 2 /\ AllOk(log))
         /\ retErr = ErrCommand <=> (log # <<>> /\ ~log[Len(log)].ok)
         /\ retErr \in {Nil, ErrCommand, ErrSSHClient}

\* A SetHostname call that ended on the failure of its first command.
C20_Witness ==
  /\ op = "SetHostname" /\ pc = "done"
  /\ Len(log) = 1 /\ ~log[1].ok /\ retErr = ErrCommand

\* The lines of a text: the pieces between the line ends, and what follows
\* the last line end when there is something.
RECURSIVE SplitLines(_, _)
SplitLines(s, line) ==
  IF s = <<>> THEN (IF line = <<>> THEN <<>> ELSE <<line>>)
  ELSE IF Head(s) = "\n" THEN <<line>> \o SplitLines(Tail(s), <<>>)
  ELSE SplitLines(Tail(s), Append(line, Head(s)))
Lines(s) == SplitLines(s, <<>>)

\* The values of a flag on a line: the pieces that follow the flag.
RECURSIVE ValuesAfter(_, _)
ValuesAfter(s, flag) ==
  IF Len(s) < 2 THEN <<>>
  ELSE IF Head(s) = flag THEN <<s[2]>> \o ValuesAfter(Tail(Tail(s)), flag)
  ELSE ValuesAfter(Tail(s), flag)

\* A list of quoted values read back: each value stands between two double
\* quotes, a backslash taking the quoting off the character after it, and is
\* followed by a space.
Malformed == <<"malformed">>
RECURSIVE ReadBody(_, _)
ReadBody(s, acc) ==
  IF s = <<>> THEN [ok |-> FALSE, val |-> acc, rest |-> <<>>]
  ELSE IF Head(s) = "\"" THEN [ok |-> TRUE, val |-> acc, rest |-> Tail(s)]
  ELSE IF Head(s) = "\\"
    THEN IF Len(s) < 2 THEN [ok |-> FALSE, val |-> acc, rest |-> <<>>]
         ELSE ReadBody(Tail(Tail(s)), Append(acc, s[2]))
    ELSE ReadBody(Tail(s), Append(acc, Head(s)))
RECURSIVE ReadQuoted(_)
ReadQuoted(s) ==
  IF s = <<>> THEN <<>>
  ELSE IF Head(s) # "\"" THEN <<Malformed>>
  ELSE LET b == ReadBody(Tail(s), <<>>)
       IN IF ~b.ok \/ b.rest = <<>> \/ Head(b.rest) # " " THEN <<Malformed>>
          ELSE <<b.val>> \o ReadQuoted(Tail(b.rest))

\* A GenerateDockerOptions call returned a text that was rendered to its end.
Rendered == gen.calls > 0 /\ gen.last.result.has /\ gen.last.renderErr = Nil
Content == gen.last.result.EngineOptions

\* C11: the text a GenerateDockerOptions call rendered has seven lines
\* whatever the lengths of the lists: [Service], ExecStart, the four fixed
\* directives and Environment.  The ExecStart line carries one --label per
\* label, one --insecure-registry per insecure registry, one
\* --registry-mirror per mirror and one -- flag per arbitrary flag, each list
\* in its order; the Environment line carries every environment value, each
\* between quotes of its own, in order.
C11_FlagsOnOneLine ==
  Rendered =>
    LET ls == Lines(Content)
    IN /\ Len(ls) = 7
       /\ Content[Len(Content)] = "\n"
       /\ ls[1] = <<"[Service]">>
       /\ Head(ls[2]) = "ExecStart=/usr/bin/docker -d -H tcp://0.0.0.0:"
       /\ ls[3] = <<"MountFlags=slave">>
       /\ ls[4] = <<"LimitNOFILE=1048576">>
       /\ ls[5] = <<"LimitNPROC=1048576">>
       /\ ls[6] = <<"LimitCORE=infinity">>
       /\ Head(ls[7]) = "Environment="
       /\ ValuesAfter(ls[2], "--label ") = prov.Labels
       /\ ValuesAfter(ls[2], "--insecure-registry ") = prov.InsecureRegistry
       /\ ValuesAfter(ls[2], "--registry-mirror ") = prov.RegistryMirror
       /\ ValuesAfter(ls[2], "--") = prov.ArbitraryFlags
       /\ ReadQuoted(Tail(ls[7])) = prov.Env

\* The text rendered for the labels a, b, the insecure registry r1 and the
\* environment value X=1.
C11_Witness ==
  /\ Rendered
  /\ gen.calls = 1
  /\ gen.labels0 = <<"a", "b">>
  /\ prov.InsecureRegistry = <<"r1">>
  /\ prov.Env = <<(<<"X", "=", "1">>)>>

Count(l, v) == Cardinality({i \in 1..Len(l) : l[i] = v})

\* C16: after any number of GenerateDockerOptions calls the provisioner's
\* labels are the labels before the first call; two calls in a row with the
\* same port that rendered their text returned the same text, with one
\* provider label in it.
C16_LabelsUnchanged ==
  /\ gen.calls > 0 => prov.Labels = gen.labels0
  /\ (Rendered /\ gen.calls > 1 /\ gen.prev.result.has /\ gen.prev.renderErr = Nil
        /\ gen.prev.port = gen.last.port) =>
       /\ Content = gen.prev.result.EngineOptions
       /\ Count(Content, ProviderLabel(DriverName)) = 1

\* A list of commands with every run of probes taken as one probe.
RECURSIVE OneProbe(_)
OneProbe(l) ==
  IF Len(l) < 2 THEN l
  ELSE IF IsProbe(l[1]) /\ IsProbe(l[2]) THEN OneProbe(Tail(l))
  ELSE <<l[1]>> \o OneProbe(Tail(l))

\* The error a run returns when the entry e of its log failed.
ErrorOf(e) ==
  CASE IsAuthCall(e) -> ErrConfigureAuth
    [] IsSwarmCall(e) -> ErrConfigureSwarm
    [] OTHER -> ErrCommand

\* What holds of a Provision run that is alone, said of the state st of the
\* provisioner id: the provisioner holds what its own caller gave, the
\* commands sent on its channel are the beginning of the fixed sequence
\* (probes sent again apart), a failed command other than a probe is the last
\* one and its error is what the run returned, a run returned without error
\* after the whole sequence only, and /etc/hosts of its host is as it was or
\* as the script leaves it.
AsAlone(id, st) ==
  LET a == InstanceArgs(id)
      n == Len(st.log)
  IN /\ st.op \in {"none", "Provision"}
     /\ st.op = "none" => (st.prov = NewRedHatProvisioner /\ st.log = <<>> /\ st.pc = "idle")
     /\ st.op = "Provision" =>
          /\ st.opArgs = [swarm |-> a.swarm, auth |-> a.auth, sd |-> a.sd]
          /\ st.prov.SwarmOptions = a.swarm
          /\ st.prov.StorageDriver = DefaultStorageDriver(a.sd)
          /\ st.prov.Labels = a.el.Labels /\ st.prov.Env = a.el.Env
          /\ st.prov.AuthOptions \in {a.auth, SetRemoteAuthOptions([st.prov EXCEPT !.AuthOptions = a.auth])}
          /\ IsPrefix(Cmds(OneProbe(st.log)), ExpectedProvisionCmds(st.repoList))
          /\ \A i \in 1..n :
               (~st.log[i].ok /\ ~IsProbe(st.log[i])) =>
                 (i = n /\ st.pc = "done" /\ st.retErr = ErrorOf(st.log[i]))
          /\ (st.pc = "done" /\ st.retErr = Nil) =>
               (Cmds(OneProbe(st.log)) = ExpectedProvisionCmds(st.repoList) /\ st.log[n].ok)
          /\ st.pc # "done" => st.retErr = Nil
          /\ st.hosts0 \in FreshHosts
          /\ st.hosts \in {st.hosts0, HostsScript(st.hosts0, MachineName)}
          /\ st.attempts <= MaxAttempts

TwoRunsAsAlone == other.id # 0 => (AsAlone(Self, Saved) /\ AsAlone(other.id, other.st))

\* C19: of two Provision runs on two provisioners and two hosts, interleaved
\* in any way, each is at every moment as a run alone is: own options, own
\* command sequence, own outcome; and a step of one run leaves all that
\* belongs to the other provisioner as it is.
C19_NoInterference ==
  /\ []TwoRunsAsAlone
  /\ [][other'.id = other.id => other' = other]_vars

\* Both runs have ended, one without error and one on a failed command, the
\* second having started before the first ended.
C19_Witness ==
  /\ other.id = 1
  /\ pc = "done" /\ retErr = Nil /\ op = "Provision"
  /\ other.st.pc = "done" /\ other.st.retErr = ErrCommand
  /\ Len(other.st.log) > 4

====
